---- MODULE Spec2Model ----
(***************************************************************************)
(* The oxasl pipeline controller (src/oxasl/oxford_asl.py): main, oxasl,   *)
(* oxasl_preproc, oxasl_model, do_output, do_report and do_cleanup, run    *)
(* over a workspace of named attributes and a set of persisted files.      *)
(***************************************************************************)
EXTENDS Integers, Sequences, FiniteSets, TLC

VARIABLES
    options,   \* the parsed command line, as main holds it (lines 113-124)
    wsp,       \* the root workspace: attribute name -> value
    files,     \* paths persisted under wsp.savedir
    stack,     \* call stack: frames [fn, ip], the last one running
    calls,     \* log of the collaborator and phase calls made so far
    passed,    \* log of the images handed to sensitivity correction and calibration
    stderr,    \* what main wrote to sys.stderr
    status     \* "running", or the exit status of the process: "0" or "1"

vars == <<options, wsp, files, stack, calls, passed, stderr, status>>

-----------------------------------------------------------------------------
(* Bounds *)

NVox == 2          \* voxels per image
MaxBatsd == 2      \* --batsd values are 1..MaxBatsd
MaxTis == 2        \* asldata.ntis is 1..MaxTis
MaxGets == 4       \* accesses to workspace attributes in a run of the store

-----------------------------------------------------------------------------
(* Python values.  None is the empty set and a value v is {v}, so that an  *)
(* attribute may hold None or a value of any type.                         *)

None == {}
Some(v) == {v}
Val(o) == CHOOSE v \in o : TRUE

Bool == {TRUE, FALSE}

-----------------------------------------------------------------------------
(* The command line (OxfordAslOptions.groups and the option categories     *)
(* main adds) and the input data.                                          *)

CmdLines ==
    [ struc : {None, Some("T1")},
      pvcorr : Bool,
      mask : {None, Some("usermask")},
      calib : {None, Some("M0")},
      batsd : {None} \cup {Some(b) : b \in 1..MaxBatsd},
      inferart : Bool,
      inferbat : Bool,
      save_corrected : Bool,
      save_reg : Bool,
      save_basil : Bool,
      save_calib : Bool,
      save_all : Bool,
      debug : Bool ]

AslData == [ntis : 1..MaxTis, nvox : 1..NVox]

\* the defaults of main without the effect of --debug on save_all
MainDefaultsDebugApart(o) ==
    o @@ [ output |-> Some("oxasl"),
           calib_method |-> IF o.calib # None
                            THEN IF o.struc # None THEN Some("refregion")
                                                   ELSE Some("voxelwise")
                            ELSE None ]

\* main, lines 114-124: the defaults main sets on the parsed options
MainDefaults(o) ==
    [ o EXCEPT !.save_all = IF o.debug THEN TRUE ELSE o.save_all ]
    @@ [ output |-> Some("oxasl"),
         calib_method |-> IF o.calib # None
                          THEN IF o.struc # None THEN Some("refregion")
                                                 ELSE Some("voxelwise")
                          ELSE None ]

\* Attributes a run sets on the root workspace, None until they are set
RunAttrs ==
    { "multiplier", "basil_options", "sensitivity",
      "corrected", "distcorr", "moco", "topup", "fieldmap",
      "reg", "basil", "calibration",
      "structural", "rois", "basil_pvcorr", "native", "report" }

\* main, line 126: Workspace(savedir=options.output, auto_asldata=True,
\* **vars(options))
Workspace(o, a) ==
    [n \in RunAttrs |-> None]
    @@ [ savedir |-> o.output, asldata |-> Some(a) ]
    @@ [ n \in (DOMAIN o) \ {"output"} |-> o[n] ]

-----------------------------------------------------------------------------
(* The workspace: attributes, sub-workspaces and persisted files.  A       *)
(* workspace state st is [w |-> attributes, f |-> persisted paths].        *)

SubAttrs(name) ==
    CASE name = "reg" ->
           {"regfrom", "asl2struc", "struc2asl",
            "regfrom_orig", "asl2struc_initial", "struc2asl_initial"}
      [] name = "structural" ->
           {"struc", "wm_pv", "gm_pv", "wm_pv_asl", "gm_pv_asl"}
      [] name = "rois" -> {"mask", "mask_orig"}
      [] name \in {"basil", "basil_pvcorr"} ->
           {"finalstep", "batsd", "basil_options", "prefit"}
      [] name = "native" ->
           {"perfusion", "perfusion_calib", "aCBV", "aCBV_calib", "arrival",
            "perfusion_wm", "perfusion_wm_calib", "arrival_wm", "modelfit",
            "arrival_calib", "arrival_wm_calib", "modelfit_calib"}
      [] OTHER -> {"data"}

\* Workspace.__setattr__: store the value; with a save path, persist a
\* value and delete the persisted files of an attribute set to None
SetAttr(st, name, v) ==
    [ w |-> [st.w EXCEPT ![name] = v],
      f |-> IF st.w.savedir = None THEN st.f
            ELSE IF v = None THEN {p \in st.f : p[1] # name}
            ELSE st.f \cup {<<name>>} ]

\* Workspace.sub: the child of that name, created at most once
Sub(st, name) ==
    IF st.w[name] # None THEN st
    ELSE [st EXCEPT !.w[name] = Some([a \in SubAttrs(name) |-> None])]

\* Assignment to an attribute of a sub-workspace: wsp.<sub>.<name> = v
SetSubAttr(st, sub, name, v) ==
    LET s1 == Sub(st, sub)
    IN [ w |-> [s1.w EXCEPT ![sub] = Some([Val(@) EXCEPT ![name] = v])],
         f |-> IF s1.w.savedir = None THEN s1.f
               ELSE IF v = None THEN s1.f \ {<<sub, name>>}
               ELSE s1.f \cup {<<sub, name>>} ]

\* wsp.<sub>.<name>, None when the sub-workspace or the attribute is unset
GetSub(w, sub, name) == IF w[sub] = None THEN None ELSE Val(w[sub])[name]

-----------------------------------------------------------------------------
(* Images: voxel data and a header.                                        *)

RawVals == {0 - 5, 42}
Image(data, header) == [data |-> data, header |-> header]
Images(n) == {Image(d, "asl") : d \in [1..n -> RawVals]}
Masks(n) == {Image(d, "asl") : d \in [1..n -> {0, 1}]}

-----------------------------------------------------------------------------
(* The program: each function is a list of statements, a frame of the call *)
(* stack is a function and the index of its next statement.                *)

\* oxasl_preproc with the mask generated before the last corrections are
\* estimated and applied
PreprocStepsMaskEarly ==
    << "struc.init", "apply_corrections",
       "get_motion_correction", "apply_corrections",
       "reg_asl2calib", "reg_asl2struc(True,False)",
       "generate_mask",
       "get_fieldmap_correction", "get_cblip_correction",
       "get_sensitivity_correction", "apply_corrections" >>

\* oxasl_preproc, lines 156-170
PreprocSteps ==
    << "struc.init", "apply_corrections",
       "get_motion_correction", "apply_corrections",
       "reg_asl2calib", "reg_asl2struc(True,False)",
       "get_fieldmap_correction", "get_cblip_correction",
       "get_sensitivity_correction", "apply_corrections",
       "generate_mask" >>

\* oxasl_model with the report generated before the outputs
ModelStepsReportFirst ==
    << "set_batsd", "basil", "refine", "if_pvcorr",
       "pv_mask", "segment", "wm_pv_asl", "gm_pv_asl", "basil_pvcorr",
       "do_report", "do_output", "do_cleanup" >>

\* oxasl_model with the cleanup before the outputs
ModelStepsCleanupFirst ==
    << "set_batsd", "basil", "refine", "if_pvcorr",
       "pv_mask", "segment", "wm_pv_asl", "gm_pv_asl", "basil_pvcorr",
       "do_cleanup", "do_output", "do_report" >>

\* oxasl_model, lines 173-209
ModelSteps ==
    << "set_batsd", "basil", "refine", "if_pvcorr",
       "pv_mask", "segment", "wm_pv_asl", "gm_pv_asl", "basil_pvcorr",
       "do_output", "do_report", "do_cleanup" >>

\* oxasl, lines 138-147
OxaslSteps == << "log_start", "oxasl_preproc", "oxasl_model", "log_done" >>

\* do_output, lines 233-238: fabber output -> (name, multiplier, is_perfusion)
OutputItems ==
    << [fabber |-> "mean_ftiss", name |-> "perfusion", calib_name |-> "perfusion_calib",
        multiplier |-> 6000, is_perfusion |-> TRUE],
       [fabber |-> "mean_fblood", name |-> "aCBV", calib_name |-> "aCBV_calib",
        multiplier |-> 100, is_perfusion |-> TRUE],
       [fabber |-> "mean_delttiss", name |-> "arrival", calib_name |-> "arrival_calib",
        multiplier |-> 1, is_perfusion |-> FALSE],
       [fabber |-> "mean_ftisswm", name |-> "perfusion_wm", calib_name |-> "perfusion_wm_calib",
        multiplier |-> 6000, is_perfusion |-> TRUE],
       [fabber |-> "mean_deltwm", name |-> "arrival_wm", calib_name |-> "arrival_wm_calib",
        multiplier |-> 1, is_perfusion |-> FALSE],
       [fabber |-> "modelfit", name |-> "modelfit", calib_name |-> "modelfit_calib",
        multiplier |-> 1, is_perfusion |-> FALSE] >>

\* do_output, lines 229-256: calib.init, then one statement per output item
OutputSteps == << "calib.init" >> \o [i \in 1..Len(OutputItems) |-> "item"]

Body(fn) ==
    CASE fn = "main" -> << "oxasl" >>
      [] fn = "oxasl" -> OxaslSteps
      [] fn = "oxasl_preproc" -> PreprocSteps
      [] fn = "oxasl_model" -> ModelSteps
      [] fn = "do_output" -> OutputSteps

Top == stack[Len(stack)]
Running == status = "running" /\ Len(stack) > 0
AtEnd == Running /\ Top.ip > Len(Body(Top.fn))
Stmt == IF Running /\ ~AtEnd THEN Body(Top.fn)[Top.ip] ELSE "none"
At(fn, stmt) == Running /\ Top.fn = fn /\ Stmt = stmt

Advance == [stack EXCEPT ![Len(stack)].ip = @ + 1]
Push(fn) == Append(Advance, [fn |-> fn, ip |-> 1])
St == [w |-> wsp, f |-> files]

\* the statement ran to its end, leaving the workspace state st, having
\* made the calls of log and handed over the images of imgs
DoneWith(st, log, imgs) ==
    /\ wsp' = st.w
    /\ files' = st.f
    /\ calls' = calls \o log
    /\ passed' = passed \o imgs
    /\ stack' = Advance
    /\ UNCHANGED <<options, stderr, status>>

Done(st, log) == DoneWith(st, log, << >>)

\* main, lines 131-135: an exception raised below main, the workspace left
\* in state st, is reported on stderr and the process exits with status 1
\* the handler of main reporting the exception without sys.exit(1)
RaisedWithExitZero(st, log, imgs) ==
    /\ wsp' = st.w
    /\ files' = st.f
    /\ calls' = calls \o log
    /\ passed' = passed \o imgs
    /\ stack' = << >>
    /\ stderr' = Append(stderr, "ERROR")
    /\ status' = "0"
    /\ UNCHANGED options

RaisedWith(st, log, imgs) ==
    /\ wsp' = st.w
    /\ files' = st.f
    /\ calls' = calls \o log
    /\ passed' = passed \o imgs
    /\ stack' = << >>
    /\ stderr' = Append(stderr, "ERROR")
    /\ status' = "1"
    /\ UNCHANGED options

Raised(st, log) == RaisedWith(st, log, << >>)

-----------------------------------------------------------------------------
(* The collaborators oxasl_preproc calls (modules struc, corrections, reg  *)
(* and mask), by their effect on the workspace.                            *)

\* struc.init: the structural reference, from --struc or from another
\* source of structural information (an FSL_ANAT directory)
StrucOutcomes(w) == IF w.struc # None THEN {w.struc} ELSE {None, Some("fsl_anat")}
StrucInit(st, s) == SetSubAttr(st, "structural", "struc", s)

\* corrections.apply_corrections: all corrections known so far, applied
\* to the input data in one resampling
KnownCorrections(w) ==
    {n \in {"moco", "distcorr", "topup", "sensitivity"} : w[n] # None}
ApplyCorrections(st) ==
    SetSubAttr(st, "corrected", "data", Some(KnownCorrections(st.w)))

GetMotionCorrection(st) == SetAttr(st, "moco", Some("mcflirt"))
GetFieldmapCorrection(st) ==
    SetAttr(SetAttr(st, "fieldmap", Some("fmap")), "distcorr", Some("warp"))
GetCblipCorrection(st) == SetAttr(st, "topup", Some("topup"))
SensMap == 2
GetSensitivityCorrection(st) ==
    IF st.w.calib = None THEN st ELSE SetAttr(st, "sensitivity", Some(SensMap))

\* the registration target before any model fit: derived from the ASL data
RegfromInit(w) == Image([i \in 1..Val(w.asldata).nvox |-> 1], "asl")
WithRegfrom(st) ==
    IF GetSub(st.w, "reg", "regfrom") # None THEN st
    ELSE SetSubAttr(st, "reg", "regfrom", Some(RegfromInit(st.w)))

\* reg.reg_asl2calib: nothing to do without calibration data
RegAsl2Calib(st) == IF st.w.calib = None THEN st ELSE WithRegfrom(st)

\* reg.reg_asl2struc(wsp, flirt, bbr): the transform from reg.regfrom to the
\* structural reference and its inverse; nothing to do without a reference
RegAsl2Struc(st, flirt, bbr) ==
    IF GetSub(st.w, "structural", "struc") = None THEN st
    ELSE LET s1 == WithRegfrom(st)
             x == [from |-> Val(GetSub(s1.w, "reg", "regfrom")), flirt |-> flirt, bbr |-> bbr]
         IN SetSubAttr(SetSubAttr(s1, "reg", "asl2struc", Some(<<"asl2struc", x>>)),
                       "reg", "struc2asl", Some(<<"struc2asl", x>>))

\* mask.generate_mask: keeps a mask that is there, else sets rois.mask to
\* the user's mask or to a mask m it generates
GenerateMask(st, m) ==
    IF GetSub(st.w, "rois", "mask") # None THEN st
    ELSE SetSubAttr(st, "rois", "mask", Some(m))

-----------------------------------------------------------------------------
(* main and oxasl                                                          *)

\* main, line 129: oxasl(wsp)
CallOxasl ==
    /\ At("main", "oxasl")
    /\ stack' = Push("oxasl")
    /\ calls' = Append(calls, "oxasl")
    /\ UNCHANGED <<options, wsp, files, passed, stderr, status>>

\* main returns normally: the process exits with status 0
MainExit ==
    /\ AtEnd /\ Top.fn = "main"
    /\ stack' = << >>
    /\ status' = "0"
    /\ UNCHANGED <<options, wsp, files, calls, passed, stderr>>

\* a function returns to its caller
Return ==
    /\ AtEnd /\ Top.fn # "main"
    /\ stack' = SubSeq(stack, 1, Len(stack) - 1)
    /\ calls' = Append(calls, "return")
    /\ UNCHANGED <<options, wsp, files, passed, stderr, status>>

\* oxasl, lines 138-141
LogStart == At("oxasl", "log_start") /\ Done(St, << >>)

\* oxasl, line 143
CallPreproc ==
    /\ At("oxasl", "oxasl_preproc")
    /\ stack' = Push("oxasl_preproc")
    /\ calls' = Append(calls, "oxasl_preproc")
    /\ UNCHANGED <<options, wsp, files, passed, stderr, status>>

\* oxasl, line 144
CallModel ==
    /\ At("oxasl", "oxasl_model")
    /\ stack' = Push("oxasl_model")
    /\ calls' = Append(calls, "oxasl_model")
    /\ UNCHANGED <<options, wsp, files, passed, stderr, status>>

\* oxasl, lines 146-147
LogDone == At("oxasl", "log_done") /\ Done(St, << >>)

-----------------------------------------------------------------------------
(* oxasl_preproc, lines 156-170: one action per call                       *)

PreStrucInit ==
    /\ At("oxasl_preproc", "struc.init")
    /\ \E s \in StrucOutcomes(wsp) : Done(StrucInit(St, s), <<"struc.init">>)

PreApplyCorrections ==
    /\ At("oxasl_preproc", "apply_corrections")
    /\ Done(ApplyCorrections(St), <<"apply_corrections">>)

PreGetMotionCorrection ==
    /\ At("oxasl_preproc", "get_motion_correction")
    /\ Done(GetMotionCorrection(St), <<"get_motion_correction">>)

PreRegAsl2Calib ==
    /\ At("oxasl_preproc", "reg_asl2calib")
    /\ Done(RegAsl2Calib(St), <<"reg_asl2calib">>)

PreRegAsl2Struc ==
    /\ At("oxasl_preproc", "reg_asl2struc(True,False)")
    /\ Done(RegAsl2Struc(St, TRUE, FALSE), <<"reg_asl2struc(True,False)">>)

PreGetFieldmapCorrection ==
    /\ At("oxasl_preproc", "get_fieldmap_correction")
    /\ Done(GetFieldmapCorrection(St), <<"get_fieldmap_correction">>)

PreGetCblipCorrection ==
    /\ At("oxasl_preproc", "get_cblip_correction")
    /\ Done(GetCblipCorrection(St), <<"get_cblip_correction">>)

PreGetSensitivityCorrection ==
    /\ At("oxasl_preproc", "get_sensitivity_correction")
    /\ Done(GetSensitivityCorrection(St), <<"get_sensitivity_correction">>)

PreGenerateMask ==
    /\ At("oxasl_preproc", "generate_mask")
    /\ \E m \in Masks(Val(wsp.asldata).nvox) :
          Done(GenerateMask(St, m), <<"generate_mask">>)

\* a collaborator called by oxasl_preproc raises
PreRaises ==
    /\ Running /\ Top.fn = "oxasl_preproc" /\ ~AtEnd
    /\ Raised(St, <<Stmt, "raise">>)

Preproc ==
    \/ PreStrucInit \/ PreApplyCorrections \/ PreGetMotionCorrection
    \/ PreRegAsl2Calib \/ PreRegAsl2Struc
    \/ PreGetFieldmapCorrection \/ PreGetCblipCorrection
    \/ PreGetSensitivityCorrection \/ PreGenerateMask
    \/ PreRaises

-----------------------------------------------------------------------------
(* The collaborators oxasl_model and do_output call (modules basil, struc, *)
(* reg, corrections and calib).                                            *)

\* the parameter maps a fit produces: which ones depends on what is inferred
\* and on the partial volume maps among the fit's options
FitOutputs(w) ==
    {"mean_ftiss", "modelfit"}
    \cup (IF w.inferart THEN {"mean_fblood"} ELSE {})
    \cup (IF w.inferbat THEN {"mean_delttiss"} ELSE {})
    \cup (IF w.basil_options # None THEN {"mean_ftisswm", "mean_deltwm"} ELSE {})

\* basil.basil(wsp, output_wsp=wsp.sub(name), prefit): the sub-workspace is
\* populated with the final step's parameter maps (voxel data d), and keeps
\* the options the fit ran with
Basil(st, name, prefit, d) ==
    LET w == st.w
        s1 == SetSubAttr(st, name, "finalstep", Some([q \in FitOutputs(w) |-> d]))
        s2 == SetSubAttr(s1, name, "batsd", w.batsd)
        s3 == SetSubAttr(s2, name, "basil_options", w.basil_options)
    IN SetSubAttr(s3, name, "prefit", Some(prefit))

\* struc.segment: partial volume maps in structural space
Segment(st) ==
    SetSubAttr(SetSubAttr(st, "structural", "wm_pv", Some("wm_pv")),
               "structural", "gm_pv", Some("gm_pv"))

\* reg.struc2asl(wsp, img, use_applywarp=True): img resampled into ASL space
Struc2Asl(w, img) ==
    IF img = None THEN None ELSE Some(<<Val(img), "in_asl_space">>)

\* calib.init: the calibration sub-workspace, when there is calibration data
CalibInit(st) ==
    IF st.w.calib = None THEN st
    ELSE SetSubAttr(st, "calibration", "data", st.w.calib)

\* corrections.apply_sensitivity_correction(wsp, img): img divided by the
\* sensitivity map, when there is one
ApplySensitivityCorrection(w, img) ==
    IF w.sensitivity = None THEN img
    ELSE Image([i \in DOMAIN img.data |-> img.data[i] \div Val(w.sensitivity)],
               img.header)

\* calib.calibrate(wsp, img): img scaled by wsp.multiplier
Calibrate(w, img) ==
    Image([i \in DOMAIN img.data |-> img.data[i] * Val(w.multiplier)], img.header)

-----------------------------------------------------------------------------
(* oxasl_model, lines 173-209                                              *)

NVoxOf(w) == Val(w.asldata).nvox

\* the prior widened whenever the data has several timepoints
SetBatsdIgnoresUser(st) ==
    IF Val(st.w.asldata).ntis > 1
    THEN SetAttr(st, "batsd", Some(1))
    ELSE st

\* the prior fixed to 1 whenever none was given
SetBatsdIgnoresNtis(st) ==
    IF st.w.batsd = None
    THEN SetAttr(st, "batsd", Some(1))
    ELSE st

\* lines 173-176
SetBatsd(st) ==
    IF Val(st.w.asldata).ntis > 1 /\ st.w.batsd = None
    THEN SetAttr(st, "batsd", Some(1))
    ELSE st

ModelSetBatsd == At("oxasl_model", "set_batsd") /\ Done(SetBatsd(St), << >>)

\* line 178
ModelBasil ==
    /\ At("oxasl_model", "basil")
    /\ \E img \in Images(NVoxOf(wsp)) :
          Done(Basil(St, "basil", TRUE, img), <<"basil(basil)">>)

\* negative values left as they are
ClampNothing(d) == d

\* line 184: new_regfrom[new_regfrom < 0] = 0
ClampNegative(d) == [i \in DOMAIN d |-> IF d[i] < 0 THEN 0 ELSE d[i]]

\* the refinement without its test of the structural reference
RefineAlways(w) == TRUE

\* line 181
RefineGuard(w) == GetSub(w, "structural", "struc") # None

\* lines 182-185 read wsp.reg.regfrom and wsp.basil.finalstep.mean_ftiss
RefineReadsOk(w) ==
    /\ GetSub(w, "reg", "regfrom") # None
    /\ GetSub(w, "basil", "finalstep") # None
    /\ "mean_ftiss" \in DOMAIN Val(GetSub(w, "basil", "finalstep"))

\* the original target saved only after it was replaced
RefineAssignSavesLate(st) ==
    LET w == st.w
        regfrom == Val(GetSub(w, "reg", "regfrom"))
        ftiss == Val(GetSub(w, "basil", "finalstep"))["mean_ftiss"]
        fresh == Some(Image(ClampNegative(ftiss.data), regfrom.header))
        s1 == SetSubAttr(st, "reg", "regfrom", fresh)
        s2 == SetSubAttr(s1, "reg", "regfrom_orig", fresh)
        s3 == SetSubAttr(s2, "reg", "asl2struc_initial", GetSub(w, "reg", "asl2struc"))
    IN SetSubAttr(s3, "reg", "struc2asl_initial", GetSub(w, "reg", "struc2asl"))

\* lines 182-187: the assignments before the second registration
RefineAssign(st) ==
    LET w == st.w
        regfrom == Val(GetSub(w, "reg", "regfrom"))
        ftiss == Val(GetSub(w, "basil", "finalstep"))["mean_ftiss"]
        s1 == SetSubAttr(st, "reg", "regfrom_orig", Some(regfrom))
        s2 == SetSubAttr(s1, "reg", "regfrom",
                         Some(Image(ClampNegative(ftiss.data), regfrom.header)))
        s3 == SetSubAttr(s2, "reg", "asl2struc_initial", GetSub(w, "reg", "asl2struc"))
    IN SetSubAttr(s3, "reg", "struc2asl_initial", GetSub(w, "reg", "struc2asl"))

\* the second registration run before the first-pass transforms are saved
ModelRefineRegistersFirst ==
    /\ At("oxasl_model", "refine")
    /\ IF ~RefineGuard(wsp) THEN Done(St, << >>)
       ELSE IF ~RefineReadsOk(wsp) THEN Raised(St, <<"refine", "raise">>)
       ELSE \/ Done(RefineAssign(RegAsl2Struc(St, FALSE, TRUE)),
                    <<"refine", "reg_asl2struc(False,True)">>)
            \/ Raised(RefineAssign(St),
                      <<"refine", "reg_asl2struc(False,True)", "raise">>)

\* lines 181-188
ModelRefine ==
    /\ At("oxasl_model", "refine")
    /\ IF ~RefineGuard(wsp) THEN Done(St, << >>)
       ELSE IF ~RefineReadsOk(wsp) THEN Raised(St, <<"refine", "raise">>)
       ELSE \/ Done(RegAsl2Struc(RefineAssign(St), FALSE, TRUE),
                    <<"refine", "reg_asl2struc(False,True)">>)
            \/ Raised(RefineAssign(St),
                      <<"refine", "reg_asl2struc(False,True)", "raise">>)

\* line 192: the partial volume correction block is lines 193-205
PvcorrBlock == <<"pv_mask", "segment", "wm_pv_asl", "gm_pv_asl", "basil_pvcorr">>
ModelIfPvcorr ==
    /\ At("oxasl_model", "if_pvcorr")
    /\ stack' = [stack EXCEPT ![Len(stack)].ip =
                    IF wsp.pvcorr THEN @ + 1 ELSE @ + 1 + Len(PvcorrBlock)]
    /\ calls' = IF wsp.pvcorr THEN Append(calls, "pvcorr") ELSE calls
    /\ UNCHANGED <<options, wsp, files, passed, stderr, status>>

\* line 195
PvMaskGuard(w) == w.mask = None /\ w.struc # None

\* lines 196-197
PvMaskAssign(st) ==
    SetSubAttr(SetSubAttr(st, "rois", "mask_orig", GetSub(st.w, "rois", "mask")),
               "rois", "mask", None)

\* lines 195-198
ModelPvMask ==
    /\ At("oxasl_model", "pv_mask")
    /\ IF ~PvMaskGuard(wsp) THEN Done(St, << >>)
       ELSE IF wsp.rois = None THEN Raised(St, <<"pv_mask", "raise">>)
       ELSE \/ \E m \in Masks(NVoxOf(wsp)) :
                  Done(GenerateMask(PvMaskAssign(St), m), <<"generate_mask">>)
            \/ Raised(PvMaskAssign(St), <<"generate_mask", "raise">>)

\* line 201
ModelSegment ==
    /\ At("oxasl_model", "segment")
    /\ \/ Done(Segment(St), <<"segment">>)
       \/ Raised(St, <<"segment", "raise">>)

\* line 202
ModelWmPvAsl ==
    /\ At("oxasl_model", "wm_pv_asl")
    /\ \/ Done(SetSubAttr(St, "structural", "wm_pv_asl",
                          Struc2Asl(wsp, GetSub(wsp, "structural", "wm_pv"))),
                <<"struc2asl(wm_pv)">>)
       \/ Raised(St, <<"struc2asl(wm_pv)", "raise">>)

\* line 203
ModelGmPvAsl ==
    /\ At("oxasl_model", "gm_pv_asl")
    /\ \/ Done(SetSubAttr(St, "structural", "gm_pv_asl",
                          Struc2Asl(wsp, GetSub(wsp, "structural", "gm_pv"))),
                <<"struc2asl(gm_pv)">>)
       \/ Raised(St, <<"struc2asl(gm_pv)", "raise">>)

\* line 204
SetBasilOptions(st) ==
    SetAttr(st, "basil_options",
            Some([pwm |-> GetSub(st.w, "structural", "wm_pv_asl"),
                  pgm |-> GetSub(st.w, "structural", "gm_pv_asl")]))

\* the second fit writing over the first fit's sub-workspace
ModelBasilPvcorrIntoBasil ==
    /\ At("oxasl_model", "basil_pvcorr")
    /\ \/ \E img \in Images(NVoxOf(wsp)) :
              Done(Basil(SetBasilOptions(St), "basil", FALSE, img),
                   <<"basil(basil_pvcorr,prefit=False)">>)
       \/ Raised(SetBasilOptions(St), <<"basil(basil_pvcorr,prefit=False)", "raise">>)

\* lines 204-205
ModelBasilPvcorr ==
    /\ At("oxasl_model", "basil_pvcorr")
    /\ \/ \E img \in Images(NVoxOf(wsp)) :
              Done(Basil(SetBasilOptions(St), "basil_pvcorr", FALSE, img),
                   <<"basil(basil_pvcorr,prefit=False)">>)
       \/ Raised(SetBasilOptions(St), <<"basil(basil_pvcorr,prefit=False)", "raise">>)

\* the first fit raises (line 178)
ModelBasilRaises ==
    /\ At("oxasl_model", "basil")
    /\ Raised(St, <<"basil(basil)", "raise">>)

\* line 207
ModelCallDoOutput ==
    /\ At("oxasl_model", "do_output")
    /\ stack' = Push("do_output")
    /\ calls' = Append(calls, "do_output")
    /\ UNCHANGED <<options, wsp, files, passed, stderr, status>>

-----------------------------------------------------------------------------
(* do_output, lines 229-256                                                *)

\* lines 229-241: calib.init(wsp), then output_wsp = wsp.sub("native")
OutCalibInit ==
    /\ At("do_output", "calib.init")
    /\ \/ Done(Sub(CalibInit(St), "native"), <<"calib.init">>)
       \/ Raised(St, <<"calib.init", "raise">>)

\* the item of the loop of line 242 that the frame is at
Item == OutputItems[Top.ip - 1]

\* line 243 reads wsp.basil.finalstep, line 248 reads wsp.rois.mask
ItemReadsOk(w) == GetSub(w, "basil", "finalstep") # None

\* the maps of the partial volume corrected fit preferred when it ran
RawFitPrefersPvcorr(w, fabber) ==
    LET fs == IF GetSub(w, "basil_pvcorr", "finalstep") # None
              THEN Val(GetSub(w, "basil_pvcorr", "finalstep"))
              ELSE Val(GetSub(w, "basil", "finalstep"))
    IN IF fabber \in DOMAIN fs THEN Some(fs[fabber]) ELSE None

\* an absent map replaced by the perfusion map
RawFitDefaultsToPerfusion(w, fabber) ==
    LET fs == Val(GetSub(w, "basil", "finalstep"))
    IN IF fabber \in DOMAIN fs THEN Some(fs[fabber]) ELSE Some(fs["mean_ftiss"])

\* line 243: wsp.basil.finalstep.ifnone(fabber_output, None)
RawFit(w, fabber) ==
    LET fs == Val(GetSub(w, "basil", "finalstep"))
    IN IF fabber \in DOMAIN fs THEN Some(fs[fabber]) ELSE None

\* the voxels inside the mask zeroed, instead of those outside
MaskOutInside(d, m) == [i \in DOMAIN d |-> IF m[i] = 0 THEN d[i] ELSE 0]

\* line 248: data[wsp.rois.mask.data == 0] = 0
MaskOut(d, m) == [i \in DOMAIN d |-> IF m[i] = 0 THEN 0 ELSE d[i]]

\* lines 246-249: the image built from the raw fit img
OutputImage(w, img) ==
    Image(MaskOut(ClampNegative(img.data), Val(GetSub(w, "rois", "mask")).data),
          img.header)

Handed(to, item, w, img) ==
    [to |-> to, name |-> item.name, img |-> img, multiplier |-> w.multiplier]

\* every quantity calibrated when there is calibration data
CalibGuardAnyQuantity(w, item) == w.calib # None

\* line 254
CalibGuard(w, item) == item.is_perfusion /\ w.calib # None

\* lines 243-256 for one item: skip an absent one; else build the image,
\* correct it when perfusion-like, store it, and calibrate it
OutItem ==
    /\ At("do_output", "item")
    /\ IF ~ItemReadsOk(wsp) THEN Raised(St, <<"item", "raise">>)
       ELSE IF RawFit(wsp, Item.fabber) = None THEN Done(St, << >>)
       ELSE IF GetSub(wsp, "rois", "mask") = None THEN Raised(St, <<"item", "raise">>)
       ELSE
         LET built == OutputImage(wsp, Val(RawFit(wsp, Item.fabber)))
             img == IF Item.is_perfusion
                    THEN ApplySensitivityCorrection(wsp, built) ELSE built
             sens == IF Item.is_perfusion
                     THEN << Handed("apply_sensitivity_correction", Item, wsp, built) >>
                     ELSE << >>
             s1 == SetSubAttr(St, "native", Item.name, Some(img))
             s2 == SetAttr(s1, "multiplier", Some(Item.multiplier))
             cal == << Handed("calibrate", Item, s2.w, img) >>
             s3 == SetSubAttr(s2, "native", Item.calib_name, Some(Calibrate(s2.w, img)))
         IN \/ /\ Item.is_perfusion
               /\ RaisedWith(St, <<"apply_sensitivity_correction", "raise">>, sens)
            \/ /\ ~CalibGuard(wsp, Item)
               /\ DoneWith(s1, IF Item.is_perfusion
                                THEN <<"apply_sensitivity_correction">> ELSE << >>, sens)
            \/ /\ CalibGuard(wsp, Item)
               /\ DoneWith(s3, <<"apply_sensitivity_correction", "calibrate">>,
                           sens \o cal)
            \/ /\ CalibGuard(wsp, Item)
               /\ RaisedWith(s2, <<"apply_sensitivity_correction", "calibrate", "raise">>,
                             sens \o cal)

-----------------------------------------------------------------------------
(* do_report, lines 215-223, and do_cleanup, lines 263-274                 *)

ReportFiles(w) ==
    {<<"report">>} \cup (IF w.debug THEN {<<"report_build">>} ELSE {})

ModelDoReport ==
    /\ At("oxasl_model", "do_report")
    /\ IF wsp.savedir = None THEN Done(St, <<"do_report">>)
       ELSE \/ Done([St EXCEPT !.f = @ \cup ReportFiles(wsp)], <<"do_report">>)
            \/ Raised(St, <<"do_report", "raise">>)

\* do_cleanup, lines 263-274: the attributes set to None, in order, each
\* with the save flag that keeps it
CleanupTable ==
    << [attr |-> "corrected", flag |-> "save_corrected"],
       [attr |-> "distcorr", flag |-> "save_corrected"],
       [attr |-> "moco", flag |-> "save_corrected"],
       [attr |-> "topup", flag |-> "save_corrected"],
       [attr |-> "fieldmap", flag |-> "save_corrected"],
       [attr |-> "reg", flag |-> "save_reg"],
       [attr |-> "basil", flag |-> "save_basil"],
       [attr |-> "calibration", flag |-> "save_calib"] >>

\* a group kept as soon as any save flag is set
DiscardsUnlessAnyFlag(w, flag) ==
    ~(w.save_all \/ w.save_corrected \/ w.save_reg \/ w.save_basil \/ w.save_calib)

\* lines 263, 269, 271, 273: not (wsp.save_all or wsp.<flag>)
Discards(w, flag) == ~(w.save_all \/ w[flag])

\* the first n assignments of do_cleanup
RECURSIVE CleanupUpTo(_, _)
CleanupUpTo(st, n) ==
    IF n = 0 THEN st
    ELSE LET s == CleanupUpTo(st, n - 1)
             e == CleanupTable[n]
         IN IF Discards(s.w, e.flag) THEN SetAttr(s, e.attr, None) ELSE s

\* do_cleanup without its last block
DoCleanupKeepsLast(st) == CleanupUpTo(st, Len(CleanupTable) - 1)

DoCleanup(st) == CleanupUpTo(st, Len(CleanupTable))

ModelDoCleanup ==
    /\ At("oxasl_model", "do_cleanup")
    /\ \/ Done(DoCleanup(St), <<"do_cleanup">>)
       \/ \E n \in 1..Len(CleanupTable) :
             /\ Discards(wsp, CleanupTable[n].flag)
             /\ Raised(CleanupUpTo(St, n - 1), <<"do_cleanup", "raise">>)

Model ==
    \/ ModelSetBatsd \/ ModelBasil \/ ModelBasilRaises \/ ModelRefine
    \/ ModelIfPvcorr \/ ModelPvMask \/ ModelSegment
    \/ ModelWmPvAsl \/ ModelGmPvAsl \/ ModelBasilPvcorr
    \/ ModelCallDoOutput \/ ModelDoReport \/ ModelDoCleanup

Output == OutCalibInit \/ OutItem

-----------------------------------------------------------------------------
(* What a statement reads of the attributes do_cleanup discards.  The log  *)
(* writes of oxasl read asldata and savedir, lines 173 and 192 read        *)
(* options, and do_cleanup reads the save flags; every other statement     *)
(* hands the workspace to a collaborator or reads reg, basil or the        *)
(* calibration itself (lines 182-187, 243, 256).                           *)

CleanupAttrs == {CleanupTable[n].attr : n \in DOMAIN CleanupTable}

StmtReads(stmt) ==
    IF stmt \in {"log_start", "log_done", "set_batsd", "if_pvcorr", "do_cleanup"}
    THEN {}
    ELSE CleanupAttrs

-----------------------------------------------------------------------------

\* the state main has reached at line 129, for command line o and data a
InitWith(o, a) ==
    /\ options = MainDefaults(o)
    /\ wsp = Workspace(MainDefaults(o), a)
    /\ files = {}
    /\ stack = << [fn |-> "main", ip |-> 1] >>
    /\ calls = << >>
    /\ passed = << >>
    /\ stderr = << >>
    /\ status = "running"

\* the save flags all agree
UniformFlags(o) ==
    /\ o.save_reg = o.save_corrected
    /\ o.save_basil = o.save_corrected
    /\ o.save_calib = o.save_corrected

\* Control flow: every combination of the options that steer the pipeline,
\* on single-voxel data
Init ==
    \E o \in CmdLines, a \in AslData :
        /\ UniformFlags(o) /\ o.inferart /\ o.inferbat /\ a.nvox = 1
        /\ InitWith(o, a)

Next ==
    \/ CallOxasl \/ MainExit \/ Return
    \/ LogStart \/ CallPreproc \/ CallModel \/ LogDone
    \/ Preproc \/ Model \/ Output

Spec == Init /\ [][Next]_vars

\* Image data: every image size up to NVox and every set of inferred
\* parameters, with the prior and the save flags as given by default
InitData ==
    \E o \in CmdLines, a \in AslData :
        /\ UniformFlags(o) /\ ~o.save_corrected /\ ~o.save_all /\ ~o.debug
        /\ o.batsd = None /\ a.ntis = 1
        /\ InitWith(o, a)

SpecData == InitData /\ [][Next]_vars

\* Retention: every combination of the save flags and --debug, on a run
\* with structural and calibration data and partial volume correction, so
\* that every artifact group exists when do_cleanup runs
InitFlags ==
    \E o \in CmdLines, a \in AslData :
        /\ o.struc # None /\ o.calib # None /\ o.pvcorr /\ o.mask = None
        /\ o.batsd = None /\ o.inferart /\ o.inferbat
        /\ a.ntis = 1 /\ a.nvox = 1
        /\ InitWith(o, a)

SpecFlags == InitFlags /\ [][Next]_vars

-----------------------------------------------------------------------------
(* The workspace as an artifact store: get on attributes with and without  *)
(* a registered producer.  calls logs each access: the attribute, whether  *)
(* the producer was invoked, and whether the access succeeded.             *)

\* the attributes with a registered producer, and one without
ProducerAttrs == {"corrected", "moco"}
StoreAttrs == ProducerAttrs \cup {"topup"}

\* an access that treats every attribute as unresolved
CachedNever(w, name) == FALSE

\* get(name): the attribute has a cached value
Cached(w, name) == w[name] # None

Access(name, invoked, ok) == [name |-> name, invoked |-> invoked, ok |-> ok]

StoreStep(st, entry) ==
    /\ Len(calls) < MaxGets
    /\ wsp' = st.w
    /\ files' = st.f
    /\ calls' = Append(calls, entry)
    /\ UNCHANGED <<options, stack, passed, stderr, status>>

\* get(name) returns the cached artifact
StoreGetCached ==
    \E name \in StoreAttrs :
        /\ Cached(wsp, name)
        /\ StoreStep(St, Access(name, FALSE, TRUE))

\* get(name) invokes the producer, caches and returns the result
StoreGetProduce ==
    \E name \in ProducerAttrs :
        /\ ~Cached(wsp, name)
        /\ StoreStep(SetAttr(St, name, Some("produced")), Access(name, TRUE, TRUE))

\* get(name) invokes the producer, which fails: nothing is cached
StoreGetProduceFails ==
    \E name \in ProducerAttrs :
        /\ ~Cached(wsp, name)
        /\ StoreStep(St, Access(name, TRUE, FALSE))

\* get(name) of an attribute with no value and no producer: None
StoreGetAbsent ==
    \E name \in StoreAttrs \ ProducerAttrs :
        /\ ~Cached(wsp, name)
        /\ StoreStep(St, Access(name, FALSE, TRUE))

\* a workspace as constructed, before any phase has run
InitStore ==
    \E o \in CmdLines, a \in AslData :
        /\ UniformFlags(o) /\ ~o.save_corrected /\ ~o.save_all /\ ~o.debug
        /\ o.inferart /\ o.inferbat /\ ~o.pvcorr /\ o.mask = None /\ o.calib = None
        /\ o.batsd = None /\ a.ntis = 1 /\ a.nvox = 1
        /\ InitWith(o, a)

NextStore ==
    \/ StoreGetCached \/ StoreGetProduce \/ StoreGetProduceFails \/ StoreGetAbsent

SpecStore == InitStore /\ [][NextStore]_vars

-----------------------------------------------------------------------------
(* Properties                                                              *)

Last(q) == q[Len(q)]
IsPrefix(p, q) == Len(p) <= Len(q) /\ SubSeq(q, 1, Len(p)) = p
Indices(q, x) == {i \in 1..Len(q) : q[i] = x}
Completed == status = "0"
Failed == status = "1"

\* the run has a structural reference (set by struc.init)
HasStruc == GetSub(wsp, "structural", "struc") # None

\* the calls that start a phase, and the returns of the functions
PhaseMarks ==
    {"oxasl_preproc", "basil(basil)", "refine", "pvcorr",
     "do_output", "do_report", "do_cleanup", "return"}
IsPhaseMark(c) == c \in PhaseMarks
PhaseLog == SelectSeq(calls, IsPhaseMark)

\* the phases of a run, in the order of the claim, with the return of
\* oxasl_preproc, do_output, oxasl_model and oxasl
PhaseOrder ==
    << "oxasl_preproc", "return", "basil(basil)" >>
    \o (IF HasStruc THEN << "refine" >> ELSE << >>)
    \o (IF wsp.pvcorr THEN << "pvcorr" >> ELSE << >>)
    \o << "do_output", "return", "do_report", "do_cleanup", "return", "return" >>

\* C1: the phases of a run execute in the order preprocessing, first fit,
\* refinement (only with a structural reference), partial volume correction
\* (only with pvcorr), output, report, cleanup, each after the one before
\* has returned; a run that completes has executed all of them.
C1_PhaseOrder ==
    /\ IsPrefix(PhaseLog, PhaseOrder)
    /\ Completed => PhaseLog = PhaseOrder

C1_Witness ==
    /\ Completed /\ HasStruc /\ wsp.pvcorr
    /\ Len(PhaseLog) = 11

\* the order of the calls of oxasl_preproc that the claim states
C2_Order ==
    << "struc.init", "apply_corrections",
       "get_motion_correction", "apply_corrections",
       "reg_asl2calib", "reg_asl2struc(True,False)",
       "get_fieldmap_correction", "get_cblip_correction",
       "get_sensitivity_correction", "apply_corrections",
       "generate_mask" >>

\* the log from the first call oxasl_preproc makes (calls[1] is oxasl and
\* calls[2] is oxasl_preproc)
AfterPreprocCall == SubSeq(calls, 3, Len(calls))

\* C2: oxasl_preproc makes its calls in the one fixed order of C2_Order,
\* whatever the configuration: what it has called so far is a prefix of
\* that order (ended by a raise when a call failed), and it returns only
\* after the whole of it, the mask being generated last.
C2_PreprocOrder ==
    /\ \A i \in 1..Len(AfterPreprocCall) :
          i <= Len(C2_Order) =>
             \/ AfterPreprocCall[i] = C2_Order[i]
             \/ /\ AfterPreprocCall[i] = "raise"
                /\ i = Len(AfterPreprocCall) /\ i > 1
    /\ Len(AfterPreprocCall) > Len(C2_Order) =>
          AfterPreprocCall[Len(C2_Order) + 1] \in {"return", "raise"}

C2_Witness ==
    /\ Len(AfterPreprocCall) > Len(C2_Order)
    /\ AfterPreprocCall[Len(C2_Order)] = "generate_mask"
    /\ AfterPreprocCall[Len(C2_Order) + 1] = "return"

\* do_cleanup has run to its end
CleanupDone ==
    \E i \in Indices(calls, "do_cleanup") : i = Len(calls) \/ calls[i + 1] # "raise"

NoSaveFlags ==
    /\ ~wsp.save_all
    /\ ~wsp.save_corrected /\ ~wsp.save_reg /\ ~wsp.save_basil /\ ~wsp.save_calib

\* C3: with save_corrected, save_reg, save_basil, save_calib and save_all
\* all false, once do_cleanup has run the attributes corrected, reg, basil
\* and calibration of the workspace are None and no persisted file is left
\* under any of them.
C3_NothingRetained ==
    (CleanupDone /\ NoSaveFlags) =>
        \A g \in {"corrected", "reg", "basil", "calibration"} :
            /\ wsp[g] = None
            /\ \A p \in files : p[1] # g

\* a completed run that had all four groups and persisted files, and kept
\* only what no flag governs
C3_Witness ==
    /\ Completed /\ NoSaveFlags /\ HasStruc /\ wsp.calib # None
    /\ wsp.native # None /\ wsp.basil = None
    /\ <<"native", "perfusion_calib">> \in files

\* a step of oxasl_model, the functions it calls included, before do_cleanup
InModelBeforeCleanup ==
    /\ Running
    /\ \E i \in 1..Len(stack) : stack[i].fn = "oxasl_model"
    /\ Stmt # "do_cleanup"

RegRefined ==
    \/ GetSub(wsp, "reg", "regfrom_orig") # None
    \/ GetSub(wsp, "reg", "asl2struc_initial") # None
    \/ GetSub(wsp, "reg", "struc2asl_initial") # None

\* C4: with no structural reference (wsp.structural.struc is None) the
\* refinement does not execute: no step of oxasl_model up to do_cleanup
\* changes reg.regfrom, reg.asl2struc or reg.struc2asl, none creates
\* regfrom_orig, asl2struc_initial or struc2asl_initial, and the second
\* ASL-to-structural registration is never called.
C4_NoRefinement ==
    [][ ~HasStruc =>
          /\ InModelBeforeCleanup =>
                /\ GetSub(wsp', "reg", "regfrom") = GetSub(wsp, "reg", "regfrom")
                /\ GetSub(wsp', "reg", "asl2struc") = GetSub(wsp, "reg", "asl2struc")
                /\ GetSub(wsp', "reg", "struc2asl") = GetSub(wsp, "reg", "struc2asl")
          /\ ~RegRefined'
          /\ Indices(calls', "refine") = {}
          /\ Indices(calls', "reg_asl2struc(False,True)") = {} ]_vars

\* the run is past the refinement, with none, and has a registration target
C4_Witness ==
    /\ ~HasStruc /\ At("oxasl_model", "do_output")
    /\ GetSub(wsp, "reg", "regfrom") # None
    /\ ~RegRefined

\* the items of do_output by output name
ItemOf(name) == CHOOSE it \in {OutputItems[k] : k \in DOMAIN OutputItems} : it.name = name
PerfusionNames == {OutputItems[k].name : k \in {j \in DOMAIN OutputItems : OutputItems[j].is_perfusion}}
OutputNames == {OutputItems[k].name : k \in DOMAIN OutputItems}

\* the first fit and the mask are there to compare the outputs with
FitKept == GetSub(wsp, "basil", "finalstep") # None /\ GetSub(wsp, "rois", "mask") # None
RawData(name) == Val(GetSub(wsp, "basil", "finalstep"))[ItemOf(name).fabber].data
MaskData == Val(GetSub(wsp, "rois", "mask")).data
Voxels == 1..NVoxOf(wsp)

\* C5: do_output clamps before it calibrates: at a voxel inside the mask
\* whose raw fit value is negative, the image of a perfusion-like quantity
\* that is handed to sensitivity correction, and the one handed to
\* calibration, hold 0, and so does the calibrated output that is stored.
C5_ClampBeforeCalibrate ==
    FitKept =>
      \A i \in Voxels :
        /\ \A k \in DOMAIN passed :
              (MaskData[i] # 0 /\ RawData(passed[k].name)[i] < 0)
                 => passed[k].img.data[i] = 0
        /\ \A n \in PerfusionNames :
              ( /\ GetSub(wsp, "native", ItemOf(n).calib_name) # None
                /\ MaskData[i] # 0 /\ RawData(n)[i] < 0 )
                 => Val(GetSub(wsp, "native", ItemOf(n).calib_name)).data[i] = 0

\* perfusion of -5 inside the mask, multiplier 6000 in force, calibrated
\* output stored
C5_Witness ==
    /\ FitKept
    /\ GetSub(wsp, "native", "perfusion_calib") # None
    /\ \E k \in DOMAIN passed :
          passed[k].to = "calibrate" /\ passed[k].name = "perfusion"
          /\ passed[k].multiplier = Some(6000)
    /\ \E i \in Voxels : MaskData[i] = 1 /\ RawData("perfusion")[i] = 0 - 5

\* C6: at a voxel where the mask is 0 every image do_output builds holds
\* 0 whatever the raw fit value: the image handed to sensitivity
\* correction and to calibration, the output stored and the calibrated
\* output stored.
C6_MaskedOut ==
    FitKept =>
      \A i \in Voxels :
        MaskData[i] = 0 =>
          /\ \A k \in DOMAIN passed : passed[k].img.data[i] = 0
          /\ \A n \in OutputNames :
                GetSub(wsp, "native", n) # None
                   => Val(GetSub(wsp, "native", n)).data[i] = 0
          /\ \A n \in PerfusionNames :
                GetSub(wsp, "native", ItemOf(n).calib_name) # None
                   => Val(GetSub(wsp, "native", ItemOf(n).calib_name)).data[i] = 0

\* a raw value of 42 outside the mask, with the output and the calibrated
\* output stored
C6_Witness ==
    /\ FitKept
    /\ GetSub(wsp, "native", "perfusion") # None
    /\ GetSub(wsp, "native", "perfusion_calib") # None
    /\ GetSub(wsp, "native", "arrival") # None
    /\ \E i \in Voxels : MaskData[i] = 0 /\ RawData("perfusion")[i] = 42

\* the attributes the workspace is constructed with
ConfigAttrs == (DOMAIN options \ {"output"}) \cup {"savedir", "asldata"}
Constructed == Workspace(options, Val(wsp.asldata))
Derived == {"batsd", "multiplier", "basil_options"}

\* C7 as claimed: no phase assigns to batsd, multiplier, basil_options or
\* any other configuration attribute of the root workspace.
C7_OptionsReadOnly ==
    \A n \in ConfigAttrs \cup Derived : wsp[n] = Constructed[n]

\* C7 as amended: batsd, multiplier and basil_options are the only
\* configuration attributes of the root workspace a phase assigns to:
\* batsd goes from None to 1 (data with several timepoints only),
\* basil_options is set under pvcorr only, and multiplier is one of the
\* multipliers of do_output, set only with calibration data; every other
\* attribute the workspace was constructed with keeps its value.
C7_OnlyDerivedWritten ==
    /\ \A n \in ConfigAttrs \ Derived : wsp[n] = Constructed[n]
    /\ wsp.batsd # options.batsd =>
          options.batsd = None /\ wsp.batsd = Some(1) /\ Val(wsp.asldata).ntis > 1
    /\ wsp.basil_options # None => wsp.pvcorr
    /\ wsp.multiplier # None =>
          /\ wsp.calib # None
          /\ \E n \in PerfusionNames : wsp.multiplier = Some(ItemOf(n).multiplier)

\* all three written in one run
C7_Witness ==
    /\ wsp.batsd = Some(1) /\ options.batsd = None
    /\ wsp.basil_options # None
    /\ wsp.multiplier = Some(100)

FitSubs == {"basil", "basil_pvcorr"}

\* C8: the prior override fires only for data with more than one timepoint
\* and no batsd given, and then batsd is 1; in every other case the batsd
\* of the root workspace after the override statement, and the batsd each
\* model fit runs with, is the one the run started with.
C8_BatsdOverride ==
    LET expected == IF Val(wsp.asldata).ntis > 1 /\ options.batsd = None
                    THEN Some(1) ELSE options.batsd
    IN /\ \A f \in FitSubs : wsp[f] # None => GetSub(wsp, f, "batsd") = expected
       /\ wsp.batsd \in {options.batsd, expected}
       /\ (\E i \in 1..Len(stack) : stack[i].fn = "oxasl_model" /\ stack[i].ip > 1)
             => wsp.batsd = expected

\* both fits of multi-timepoint data have run with the batsd the user gave
C8_Witness ==
    /\ wsp.basil # None /\ wsp.basil_pvcorr # None
    /\ options.batsd = Some(2)
    /\ Val(wsp.asldata).ntis > 1
    /\ GetSub(wsp, "basil", "batsd") = Some(2)
    /\ GetSub(wsp, "basil_pvcorr", "batsd") = Some(2)

\* a call that ran to its end: logged, and not followed by a raise
Ran(call) == \E i \in Indices(calls, call) : i = Len(calls) \/ calls[i + 1] # "raise"

\* the failure happened in do_cleanup itself
FailedInCleanup == Failed /\ Len(calls) > 1 /\ calls[Len(calls) - 1] = "do_cleanup"

\* what the calls that ran to their end have set and persisted
PersistedByCompleted ==
    /\ Ran("apply_corrections") =>
          wsp.corrected # None /\ <<"corrected", "data">> \in files
    /\ Ran("get_motion_correction") => wsp.moco # None /\ <<"moco">> \in files
    /\ Ran("get_fieldmap_correction") =>
          /\ wsp.fieldmap # None /\ <<"fieldmap">> \in files
          /\ wsp.distcorr # None /\ <<"distcorr">> \in files
    /\ Ran("get_cblip_correction") => wsp.topup # None /\ <<"topup">> \in files
    /\ (Ran("reg_asl2calib") /\ wsp.calib # None) =>
          wsp.reg # None /\ <<"reg", "regfrom">> \in files
    /\ Ran("basil(basil)") =>
          wsp.basil # None /\ <<"basil", "finalstep">> \in files
    /\ (Ran("calib.init") /\ wsp.calib # None) =>
          wsp.calibration # None /\ <<"calibration", "data">> \in files
    /\ Ran("generate_mask") =>
          <<"rois", "mask">> \in files \/ <<"rois", "mask_orig">> \in files

\* C9: a failure raised in any phase aborts the run: it is the last thing
\* the run does, main writes a diagnostic and exits with status 1, and
\* unless do_cleanup itself failed, do_cleanup has not run and everything
\* the completed calls set and persisted is still there.
C9_FailureAborts ==
    /\ \A i \in Indices(calls, "raise") : i = Len(calls)
    /\ Indices(calls, "raise") # {} => Failed
    /\ Failed =>
          /\ Indices(calls, "raise") # {}
          /\ stack = << >> /\ ~ENABLED Next
          /\ stderr # << >>
          /\ ~FailedInCleanup =>
                /\ Indices(calls, "do_cleanup") = {}
                /\ PersistedByCompleted
    /\ Completed => stderr = << >>

\* the second fit failed, in a run that would have discarded everything,
\* and the first fit is still in the workspace and on disk
C9_Witness ==
    /\ Failed /\ NoSaveFlags
    /\ Len(calls) > 1 /\ calls[Len(calls) - 1] = "basil(basil_pvcorr,prefit=False)"
    /\ wsp.basil # None /\ <<"basil", "finalstep">> \in files
    /\ wsp.reg # None /\ wsp.corrected # None

\* the attributes do_cleanup discards in this run
Cleared == {CleanupTable[n].attr : n \in {k \in DOMAIN CleanupTable : Discards(wsp, CleanupTable[k].flag)}}

\* the statements still to run, in every frame of the stack
Remaining ==
    UNION { {Body(stack[i].fn)[j] : j \in stack[i].ip..Len(Body(stack[i].fn))}
            : i \in 1..Len(stack) }

\* C10: do_cleanup runs at most once, exactly once in a run that completes,
\* and only after do_output has returned and the report was generated;
\* once it has run, nothing that is still to run reads an attribute it
\* has discarded, and nothing but returns follows it.
C10_CleanupLast ==
    /\ Cardinality(Indices(calls, "do_cleanup")) <= 1
    /\ Completed => Cardinality(Indices(calls, "do_cleanup")) = 1
    /\ \A k \in Indices(calls, "do_cleanup") :
          /\ \E i \in Indices(calls, "do_output") :
                \E j \in Indices(calls, "return") : i < j /\ j < k
          /\ \E i \in Indices(calls, "do_report") : i < k
          /\ \A m \in (k + 1)..Len(calls) : calls[m] \in {"return", "raise"}
          /\ \A stmt \in Remaining : StmtReads(stmt) \cap Cleared = {}

\* do_cleanup has discarded attributes and oxasl has still to write its log
C10_Witness ==
    /\ Ran("do_cleanup") /\ Cleared = CleanupAttrs
    /\ wsp.basil = None /\ wsp.reg = None
    /\ "log_done" \in Remaining

\* the accesses to an attribute before access i that resolved it
ResolvedBefore(i) ==
    {j \in 1..(i - 1) : calls[j].name = calls[i].name /\ calls[j].invoked /\ calls[j].ok}

\* C11: an attribute with a producer is resolved at most once: get invokes
\* the producer exactly when the attribute has a producer and no earlier
\* get resolved it, so two gets of which the first succeeds call it once;
\* a producer that fails caches no value, so the next get invokes it again.
C11_Memoization ==
    /\ \A i \in DOMAIN calls :
          calls[i].invoked <=>
             (calls[i].name \in ProducerAttrs /\ ResolvedBefore(i) = {})
    /\ \A n \in ProducerAttrs :
          /\ Cardinality({i \in DOMAIN calls :
                            calls[i].name = n /\ calls[i].invoked /\ calls[i].ok}) <= 1
          /\ Cached(wsp, n) <=>
                (\E i \in DOMAIN calls : calls[i].name = n /\ calls[i].invoked /\ calls[i].ok)

\* a producer failed, was invoked again by the next get and succeeded, and
\* the get after that did not invoke it
C11_Witness ==
    /\ Len(calls) >= 3
    /\ calls[1] = Access("corrected", TRUE, FALSE)
    /\ calls[2] = Access("corrected", TRUE, TRUE)
    /\ calls[3] = Access("corrected", FALSE, TRUE)

\* the refinement phase is about to run its body (lines 182-188)
Refining == At("oxasl_model", "refine") /\ RefineGuard(wsp) /\ RefineReadsOk(wsp)

\* the second registration was invoked and returned
Rereg == Ran("reg_asl2struc(False,True)")

\* C12: the refinement phase saves the registration target it finds as
\* reg.regfrom_orig and replaces reg.regfrom by the first fit's mean_ftiss
\* with each negative value set to 0 and every other value unchanged; the
\* target the second registration is invoked with has no negative value.
C12_RefinedTarget ==
    [][Refining =>
         LET ftiss == Val(GetSub(wsp, "basil", "finalstep"))["mean_ftiss"].data
             new == Val(GetSub(wsp', "reg", "regfrom")).data
         IN /\ GetSub(wsp', "reg", "regfrom_orig") = GetSub(wsp, "reg", "regfrom")
            /\ DOMAIN new = DOMAIN ftiss
            /\ \A i \in DOMAIN ftiss :
                  /\ ftiss[i] < 0 => new[i] = 0
                  /\ ftiss[i] >= 0 => new[i] = ftiss[i]
                  /\ new[i] >= 0
            /\ Last(calls') # "raise" =>
                  Val(GetSub(wsp', "reg", "asl2struc"))[2].from
                     = Val(GetSub(wsp', "reg", "regfrom"))]_vars

\* the refinement ran on a perfusion map with a negative and a positive
\* voxel: the original target is saved and the new one is clamped
C12_Witness ==
    /\ Rereg /\ InModelBeforeCleanup
    /\ GetSub(wsp, "reg", "regfrom_orig") = Some(RegfromInit(wsp))
    /\ LET ftiss == Val(GetSub(wsp, "basil", "finalstep"))["mean_ftiss"].data
           new == Val(GetSub(wsp, "reg", "regfrom")).data
       IN /\ \E i \in DOMAIN ftiss : ftiss[i] < 0 /\ new[i] = 0
          /\ \E i \in DOMAIN ftiss : ftiss[i] > 0 /\ new[i] = ftiss[i]

\* the transform reg_asl2struc computes from target img with these settings
Transform(kind, img, flirt, bbr) ==
    Some(<<kind, [from |-> Val(img), flirt |-> flirt, bbr |-> bbr]>>)

\* the '_initial' attributes hold the transforms of the first registration
\* (line 163: from the original target, flirt without bbr)
InitialAreFirstPass(w) ==
    LET orig == GetSub(w, "reg", "regfrom_orig")
    IN /\ GetSub(w, "reg", "asl2struc_initial") = Transform("asl2struc", orig, TRUE, FALSE)
       /\ GetSub(w, "reg", "struc2asl_initial") = Transform("struc2asl", orig, TRUE, FALSE)

\* C13: the refinement phase assigns reg.asl2struc_initial and
\* reg.struc2asl_initial the transforms of the first registration before it
\* invokes the second one; the second one is reg_asl2struc(wsp, False, True)
\* and works from the replaced reg.regfrom; in every later step of
\* oxasl_model up to do_cleanup the '_initial' attributes keep those values.
C13_InitialTransforms ==
    [][/\ Refining =>
            /\ GetSub(wsp', "reg", "asl2struc_initial") = GetSub(wsp, "reg", "asl2struc")
            /\ GetSub(wsp', "reg", "struc2asl_initial") = GetSub(wsp, "reg", "struc2asl")
            /\ InitialAreFirstPass(wsp')
            /\ SubSeq(calls', Len(calls) + 1, Len(calls) + 2)
                  = <<"refine", "reg_asl2struc(False,True)">>
            /\ Last(calls') # "raise" =>
                  LET new == GetSub(wsp', "reg", "regfrom")
                  IN /\ new # GetSub(wsp, "reg", "regfrom")
                     /\ GetSub(wsp', "reg", "asl2struc")
                           = Transform("asl2struc", new, FALSE, TRUE)
                     /\ GetSub(wsp', "reg", "struc2asl")
                           = Transform("struc2asl", new, FALSE, TRUE)
       /\ (InModelBeforeCleanup /\ ~AtEnd /\ Indices(calls, "refine") # {}) =>
            /\ InitialAreFirstPass(wsp')
            /\ Cardinality(Indices(calls', "reg_asl2struc(False,True)")) = 1]_vars

\* the second registration returned: the current transforms are the
\* boundary-based ones, the '_initial' ones those of the first pass
C13_Witness ==
    /\ Rereg /\ At("oxasl_model", "do_report")
    /\ InitialAreFirstPass(wsp)
    /\ Val(GetSub(wsp, "reg", "asl2struc"))[2].bbr
    /\ GetSub(wsp, "reg", "asl2struc") # GetSub(wsp, "reg", "asl2struc_initial")

SecondFit == "basil(basil_pvcorr,prefit=False)"

\* the calls of the second fit, each after segmentation and after the
\* transformation of the white and the gray matter map returned
SecondFitInOrder ==
    \A i \in Indices(calls, SecondFit) :
        \E a \in Indices(calls, "segment") :
            /\ calls[a + 1] # "raise"
            /\ \E b \in Indices(calls, "struc2asl(wm_pv)") :
                  a < b /\ b < i /\ calls[b + 1] # "raise"
            /\ \E c \in Indices(calls, "struc2asl(gm_pv)") :
                  a < c /\ c < i /\ calls[c + 1] # "raise"

\* oxasl_model is past the partial volume correction block
PastPvcorr ==
    /\ Running
    /\ \E i \in 1..Len(stack) :
          stack[i].fn = "oxasl_model" /\ stack[i].ip > Len(ModelSteps) - 3

\* C14: the second model fit is called only with pvcorr set, and once
\* oxasl_model is past the block it has run iff pvcorr is set; it is called
\* after segmentation and after both partial volume maps were transformed to
\* ASL space; the fit gets those maps as the options pwm and pgm, is invoked
\* with prefit=False, fills 'basil_pvcorr' and leaves 'basil' as it was.
C14_SecondFit ==
    [][/\ (Indices(calls, SecondFit) # {} => wsp.pvcorr /\ SecondFitInOrder)'
       /\ (PastPvcorr => (Ran(SecondFit) <=> wsp.pvcorr))'
       /\ (At("oxasl_model", "basil_pvcorr") /\ Last(calls') # "raise") =>
            /\ GetSub(wsp, "basil_pvcorr", "finalstep") = None
            /\ GetSub(wsp', "basil_pvcorr", "finalstep") # None
            /\ GetSub(wsp', "basil_pvcorr", "prefit") = Some(FALSE)
            /\ GetSub(wsp', "basil_pvcorr", "basil_options")
                  = Some([pwm |-> GetSub(wsp, "structural", "wm_pv_asl"),
                          pgm |-> GetSub(wsp, "structural", "gm_pv_asl")])
            /\ GetSub(wsp, "structural", "wm_pv_asl")
                  = Struc2Asl(wsp, GetSub(wsp, "structural", "wm_pv"))
            /\ GetSub(wsp, "structural", "gm_pv_asl")
                  = Struc2Asl(wsp, GetSub(wsp, "structural", "gm_pv"))
            /\ GetSub(wsp, "structural", "wm_pv_asl") # None
            /\ GetSub(wsp, "structural", "gm_pv_asl") # None
            /\ wsp'.basil = wsp.basil /\ wsp.basil # None]_vars

\* with pvcorr the second fit returned: 'basil_pvcorr' holds its result and
\* options, 'basil' the first fit's
C14_Witness ==
    /\ wsp.pvcorr /\ Ran(SecondFit) /\ At("oxasl_model", "do_output")
    /\ GetSub(wsp, "basil_pvcorr", "prefit") = Some(FALSE)
    /\ GetSub(wsp, "basil", "prefit") = Some(TRUE)
    /\ Val(GetSub(wsp, "basil_pvcorr", "basil_options")).pwm # None
    /\ GetSub(wsp, "basil", "basil_options") = None

\* C15: in the partial volume correction phase the mask is regenerated iff
\* no user mask was given and a structural reference exists
\* (structural.struc, the reference the refinement phase tests): then
\* rois.mask_orig gets the previous mask, rois.mask is cleared and
\* generate_mask is invoked, before the second fit; otherwise rois.mask is
\* unchanged and generate_mask is not invoked again.
C15_MaskRegenerated ==
    [][(At("oxasl_model", "pv_mask") /\ wsp.rois # None) =>
         IF wsp.mask = None /\ HasStruc
         THEN /\ GetSub(wsp', "rois", "mask_orig") = GetSub(wsp, "rois", "mask")
              /\ Len(calls') > Len(calls) /\ calls'[Len(calls) + 1] = "generate_mask"
              /\ Indices(calls', SecondFit) = {}
         ELSE /\ wsp'.rois = wsp.rois
              /\ calls' = calls]_vars

\* the refinement ran on a structural reference that did not come from
\* --struc, no mask was given, and the second fit ran on the mask of the
\* preprocessing: nothing was saved as rois.mask_orig
C15_Witness ==
    /\ wsp.pvcorr /\ wsp.mask = None /\ HasStruc /\ wsp.struc = None
    /\ Rereg /\ Ran(SecondFit)
    /\ GetSub(wsp, "rois", "mask") # None
    /\ GetSub(wsp, "rois", "mask_orig") = None
    /\ Cardinality(Indices(calls, "generate_mask")) = 1

\* the raw model-fit artifact of an output item is absent
Absent(w, item) == item.fabber \notin DOMAIN Val(GetSub(w, "basil", "finalstep"))

\* the number of items the loop of do_output has dealt with
ItemsDone ==
    IF Running /\ Top.fn = "do_output" THEN (IF Top.ip > 2 THEN Top.ip - 2 ELSE 0)
    ELSE IF At("oxasl_model", "do_report") \/ At("oxasl_model", "do_cleanup")
         THEN Len(OutputItems)
    ELSE 0

HandedFor(name) == {k \in DOMAIN passed : passed[k].name = name}

\* every item dealt with is stored if its raw artifact is present, and left
\* out altogether if it is absent
AbsentLeftOut ==
    \A k \in 1..ItemsDone :
        LET item == OutputItems[k]
        IN IF Absent(wsp, item)
           THEN /\ GetSub(wsp, "native", item.name) = None
                /\ GetSub(wsp, "native", item.calib_name) = None
                /\ HandedFor(item.name) = {}
           ELSE GetSub(wsp, "native", item.name) # None

\* C16: do_output skips a quantity whose raw model-fit artifact is absent,
\* without error: the step changes nothing but the position in the loop; no
\* output and no calibrated output is stored under its name, no image is
\* handed to sensitivity correction or calibration for it, and every
\* quantity that is present is stored.
C16_AbsentSkipped ==
    [][/\ (At("do_output", "item") /\ ItemReadsOk(wsp) /\ Absent(wsp, Item)) =>
            /\ status' = "running" /\ stderr' = stderr
            /\ wsp' = wsp /\ files' = files
            /\ calls' = calls /\ passed' = passed
            /\ stack' = Advance
       /\ AbsentLeftOut']_vars

\* do_output returned with aCBV and the white matter quantities absent and
\* skipped, and perfusion, arrival and modelfit stored
C16_Witness ==
    /\ At("oxasl_model", "do_report") /\ FitKept
    /\ Absent(wsp, ItemOf("aCBV")) /\ Absent(wsp, ItemOf("perfusion_wm"))
    /\ ~Absent(wsp, ItemOf("arrival"))
    /\ GetSub(wsp, "native", "aCBV") = None
    /\ GetSub(wsp, "native", "perfusion") # None
    /\ GetSub(wsp, "native", "arrival") # None
    /\ GetSub(wsp, "native", "modelfit") # None

\* the quantities declared perfusion-like with their multipliers (lines
\* 232-237), and the others
OwnMultiplier(name) ==
    CASE name \in {"perfusion", "perfusion_wm"} -> 6000
      [] name = "aCBV" -> 100
NeverCalibrated == {"arrival", "arrival_wm", "modelfit"}

\* C17: of the quantities do_output has dealt with, '<name>_calib' is stored
\* exactly for those present among perfusion, aCBV and perfusion_wm, and
\* only with calibration data (wsp.calib not None); each calibrate call is
\* made with wsp.multiplier at the quantity's own constant, 6000 for
\* perfusion and perfusion_wm and 100 for aCBV, and the stored calibrated
\* output is the stored output times it; arrival, arrival_wm and modelfit
\* are never handed to sensitivity correction or calibration and get no
\* calibrated output.
C17_CalibratedOutputs ==
    /\ \A k \in DOMAIN passed :
          /\ passed[k].name \notin NeverCalibrated
          /\ passed[k].to = "calibrate" =>
                /\ wsp.calib # None
                /\ passed[k].multiplier = Some(OwnMultiplier(passed[k].name))
    /\ FitKept =>
          \A k \in 1..ItemsDone :
              LET item == OutputItems[k]
                  out == GetSub(wsp, "native", item.name)
                  cal == GetSub(wsp, "native", item.calib_name)
              IN /\ cal # None <=>
                      ( /\ ~Absent(wsp, item)
                        /\ item.name \in {"perfusion", "aCBV", "perfusion_wm"}
                        /\ wsp.calib # None )
                 /\ cal # None =>
                      /\ \E j \in HandedFor(item.name) : passed[j].to = "calibrate"
                      /\ \A i \in Voxels :
                            Val(cal).data[i] = Val(out).data[i] * OwnMultiplier(item.name)

\* with calibration data do_output returned: perfusion calibrated with
\* 6000, aCBV with 100, arrival stored without calibrated output
C17_Witness ==
    /\ At("oxasl_model", "do_report") /\ FitKept /\ wsp.calib # None
    /\ GetSub(wsp, "native", "aCBV_calib") # None
    /\ GetSub(wsp, "native", "arrival") # None
    /\ GetSub(wsp, "native", "arrival_calib") = None
    /\ \E i \in Voxels : Val(GetSub(wsp, "native", "aCBV_calib")).data[i] # 0
    /\ \E j, k \in DOMAIN passed :
          /\ passed[j].to = "calibrate" /\ passed[j].name = "perfusion"
          /\ passed[j].multiplier = Some(6000)
          /\ passed[k].to = "calibrate" /\ passed[k].name = "aCBV"
          /\ passed[k].multiplier = Some(100)

\* the artifact groups of do_cleanup: the attributes of each and its flag
GroupAttrs(flag) ==
    CASE flag = "save_corrected" -> {"corrected", "distcorr", "moco", "topup", "fieldmap"}
      [] flag = "save_reg" -> {"reg"}
      [] flag = "save_basil" -> {"basil"}
      [] flag = "save_calib" -> {"calibration"}
GroupFlags == {"save_corrected", "save_reg", "save_basil", "save_calib"}
AllGroupAttrs == UNION {GroupAttrs(g) : g \in GroupFlags}
FilesUnder(fs, attrs) == {p \in fs : p[1] \in attrs}

\* do_cleanup is about to run and returns
CleaningUp == At("oxasl_model", "do_cleanup") /\ Last(calls') = "do_cleanup"

\* C18: do_cleanup discards a group iff neither save_all nor the group's
\* own flag is set: then it sets the group's attributes to None; otherwise
\* the group's attributes and persisted files are unchanged.  The flags of
\* the other groups play no part, and nothing outside the groups changes.
C18_Retention ==
    [][CleaningUp =>
         /\ \A g \in GroupFlags :
               IF ~wsp.save_all /\ ~wsp[g]
               THEN /\ \A a \in GroupAttrs(g) : wsp'[a] = None
                    /\ FilesUnder(files', GroupAttrs(g)) = {}
               ELSE /\ \A a \in GroupAttrs(g) : wsp'[a] = wsp[a]
                    /\ FilesUnder(files', GroupAttrs(g)) = FilesUnder(files, GroupAttrs(g))
         /\ \A a \in (DOMAIN wsp) \ AllGroupAttrs : wsp'[a] = wsp[a]
         /\ files' \ FilesUnder(files', AllGroupAttrs)
               = files \ FilesUnder(files, AllGroupAttrs)]_vars

\* do_cleanup ran with save_reg alone: the registration group is kept with
\* its files while the other three groups are discarded
C18_Witness ==
    /\ Ran("do_cleanup")
    /\ ~wsp.save_all /\ wsp.save_reg
    /\ ~wsp.save_corrected /\ ~wsp.save_basil /\ ~wsp.save_calib
    /\ GetSub(wsp, "reg", "asl2struc_initial") # None
    /\ FilesUnder(files, {"reg"}) # {}
    /\ wsp.corrected = None /\ wsp.moco = None
    /\ wsp.basil = None /\ wsp.calibration = None
    /\ FilesUnder(files, AllGroupAttrs \ {"reg"}) = {}

\* C19: with --debug the workspace has save_all set from its construction
\* on, and do_cleanup returns without setting any attribute to None or
\* deleting any file, whatever the four save flags are.
C19_DebugKeepsAll ==
    [][/\ (wsp.debug => wsp.save_all) /\ (wsp'.debug => wsp'.save_all)
       /\ (At("oxasl_model", "do_cleanup") /\ wsp.debug) =>
            /\ Last(calls') = "do_cleanup" /\ status' = "running"
            /\ wsp' = wsp /\ files' = files]_vars

\* do_cleanup ran under --debug with none of the four save flags: every
\* group is still there
C19_Witness ==
    /\ Ran("do_cleanup") /\ wsp.debug
    /\ ~wsp.save_corrected /\ ~wsp.save_reg /\ ~wsp.save_basil /\ ~wsp.save_calib
    /\ \A a \in AllGroupAttrs : wsp[a] # None
    /\ \A a \in AllGroupAttrs : FilesUnder(files, {a}) # {}

\* the output of an item as a function of the first fit's map raw, the
\* mask and the sensitivity map alone
FromFirstFit(item, raw) ==
    Image([i \in Voxels |->
             LET v == IF MaskData[i] = 0 \/ raw.data[i] < 0 THEN 0 ELSE raw.data[i]
             IN IF item.is_perfusion /\ wsp.sensitivity # None
                THEN v \div Val(wsp.sensitivity) ELSE v],
          raw.header)

\* the second fit ran and gave maps other than the first fit's
SecondFitDiffers ==
    /\ GetSub(wsp, "basil_pvcorr", "finalstep") # None
    /\ Val(GetSub(wsp, "basil_pvcorr", "finalstep"))["mean_ftiss"]
          # Val(GetSub(wsp, "basil", "finalstep"))["mean_ftiss"]

\* C20: do_output reads the raw artifacts from basil.finalstep, also when
\* the partial volume corrected fit ran: every output it has stored is the
\* function of the first fit's map, the mask and the calibration data that
\* it is without a second fit, and a quantity the first fit lacks is not
\* stored even if basil_pvcorr.finalstep has it.
C20_ReadsFirstFit ==
    FitKept =>
      \A k \in 1..ItemsDone :
          LET item == OutputItems[k]
              fs == Val(GetSub(wsp, "basil", "finalstep"))
              out == GetSub(wsp, "native", item.name)
              cal == GetSub(wsp, "native", item.calib_name)
          IN IF item.fabber \notin DOMAIN fs THEN out = None /\ cal = None
             ELSE /\ out = Some(FromFirstFit(item, fs[item.fabber]))
                  /\ cal # None =>
                        \A i \in Voxels :
                            Val(cal).data[i] = Val(out).data[i] * item.multiplier

\* the second fit gave another perfusion map and white matter maps, and
\* do_output returned with the perfusion of the first fit and no white
\* matter output
C20_Witness ==
    /\ At("oxasl_model", "do_report") /\ FitKept /\ SecondFitDiffers
    /\ "mean_ftisswm" \in DOMAIN Val(GetSub(wsp, "basil_pvcorr", "finalstep"))
    /\ GetSub(wsp, "native", "perfusion_wm") = None
    /\ GetSub(wsp, "native", "perfusion") # None
    /\ \E i \in Voxels : Val(GetSub(wsp, "native", "perfusion")).data[i] # 0

====
